---- MODULE Spec2Model ----
(***************************************************************************)
(* A model of DMpy (src/DMpy/model.py, src/DMpy/utils.py): one DMModel     *)
(* instance, its fit and simulate entry points, the compiled-model and     *)
(* compiled-simulation caches, parameter binding, and the recurrence       *)
(* evaluated by the fit path (_PyMCModel.get_value) and by the simulate    *)
(* path (DMModel.simulate).                                                *)
(*                                                                         *)
(* Specifications:                                                         *)
(*   Spec     - fit calls, valid and rejected, on one DMModel              *)
(*   SpecBind - MLE and MAP fits of models of every declared prior kind    *)
(*   SpecLife - fit and simulate calls on models of every arity            *)
(*   SpecSim  - one simulate call on every parameter grid and outcome array*)
(*   SpecRec  - the two recurrences on bounded seeds and outcome sequences *)
(*   SpecOpts - fit calls varying objective, estimator outcome,            *)
(*              hierarchical and recovery options                          *)
(*   SpecMissing  - one simulate call supplying values for some, all or    *)
(*                  none of the declared parameters                        *)
(*   SpecRecovery - one recovery call on bounded simulated and fitted      *)
(*                  parameter tables                                       *)
(*   SpecObs   - the constructor on lists of observation parameters, then  *)
(*               fits of the model it built                                *)
(*   SpecNames - MAP and MLE fits of models whose parameter names begin    *)
(*               alike or hold two underscores in a row                    *)
(***************************************************************************)
EXTENDS Integers, Sequences, FiniteSets, TLC

VARIABLES
    learning_model,       \* self.learning_model: the declared step function
    learning_parameters,  \* self.learning_parameters: Parameter objects (mutated by binding)
    declared,             \* ghost: the parameters as declared at construction
    observation,          \* self.observation_model (present or None) and
                          \* self.observation_parameters
    pymc3_model,          \* self._pymc3_model: None or the compiled model
    fit_method,           \* self._fit_method
    n_subjects,           \* self.n_subjects
    holders,              \* self.responses/outcomes/time/n_runs: the shared data holders
    fit_complete,         \* self.fit_complete
    fit_values,           \* self.fit_values
    fit_stats,            \* self.log_likelihood, self.BIC, self.AIC
    simulate_function,    \* self._simulate_function
    sim_learning_parameters, \* self.sim_learning_parameters
    simulated,            \* self.simulated
    n_compiled,           \* ghost: number of theano.function compilations in simulate
    last,                 \* ghost: what the most recent call did
    request,              \* the call a one-call specification is about to make
    rec                   \* a recurrence, its inputs and its outputs (SpecRec)

vars == <<learning_model, learning_parameters, declared, observation, pymc3_model, fit_method,
          n_subjects, holders, fit_complete, fit_values, fit_stats,
          simulate_function, sim_learning_parameters, simulated,
          n_compiled, last, request, rec>>

(***************************************************************************)
(* Bounds                                                                  *)
(***************************************************************************)
MaxSubjects == 2      \* subject counts 1..MaxSubjects in fit calls
MaxData == 4          \* distinct response/outcome data sets
MaxTrials == 3        \* longest outcome sequence
MaxCompiles == 2      \* cap on simulate compilations of one instance
MaxVals == 4          \* longest parameter value list given to simulate
MaxSimSubjects == 2   \* n_subjects and runs_per_subject given to simulate
MaxOutcomeRows == 3   \* outcome sequences given to simulate
MaxOutcome == 3       \* outcomes are 0..MaxOutcome
MaxSeed == 1          \* initial values of parameters are 0..MaxSeed
MaxSimRows == 3       \* rows of the table of simulated values given to recovery
MaxSimValue == 1      \* simulated parameter values are 0..MaxSimValue

None == "None"

(***************************************************************************)
(* Learning models (step functions).  A step function is called as         *)
(* fn(outcome, time, dynamic..., static...) and returns a tuple; n_returns *)
(* is what utils.n_returns counts in its return line, n_reused the number  *)
(* of leading outputs the function means to be fed back.                   *)
(***************************************************************************)
StepFns == {"add", "add_pe", "add_w"}

\* utils.n_returns: the number of comma-separated items of the return line
n_returns(f) == IF f \in {"add", "add_t"} THEN 1 ELSE 2

\* the return convention (value, outputs reused at the next step, other outputs)
n_reused(f) == IF f = "add_w" THEN 2 ELSE 1

\* one call of the step function; scan passes the sequence elements o and t,
\* then the carried values, then the static parameters: a holds the last two
\* groups in that order
LearningStep(f, o, t, a) ==
    CASE f = "add"    -> << a[1] + o >>
      [] f = "add_t"  -> << a[1] + o * t >>
      [] f = "add_pe" -> << a[1] + a[2] * (o - a[1]), o - a[1] >>
      [] f = "add_w"  -> << a[1] + o, a[2] + a[1] >>

(***************************************************************************)
(* Parameters                                                              *)
(***************************************************************************)
Kinds == {"normal", "uniform", "flat", "fixed"}

\* no pymc_distribution attribute yet
NoDistribution == [family |-> None, transform |-> None]

\* a Parameter object: bounds are recorded as present (TRUE) or None (FALSE);
\* pymc_distribution and backward are absent until the binder sets them
Parameter(name, kind, lo, up, dyn) ==
    [name |-> name, distribution |-> kind, lower_bound |-> lo, upper_bound |-> up,
     dynamic |-> dyn, fixed |-> (kind = "fixed"),
     pymc_distribution |-> NoDistribution, backward |-> None]

ValueDecls == { Parameter("v", k, TRUE, TRUE, TRUE) : k \in {"fixed", "uniform"} }

SecondDecls ==
    { Parameter("alpha", "normal", b, b, d) : b \in BOOLEAN, d \in BOOLEAN }
    \cup { Parameter("alpha", "normal", TRUE, FALSE, d) : d \in BOOLEAN }
    \cup { Parameter("alpha", "uniform", TRUE, TRUE, d) : d \in BOOLEAN }
    \cup { Parameter("alpha", "flat", FALSE, FALSE, d) : d \in BOOLEAN }

ParameterLists == { <<p, q>> : p \in ValueDecls, q \in SecondDecls }

\* DMModel.__init__: n_dynamic counts the parameters flagged dynamic
n_dynamic(ps) == Cardinality({ i \in 1..Len(ps) : ps[i].dynamic })

\* the free (non-fixed) parameters, the variables of the compiled model
FreeIndices(ps) == { i \in 1..Len(ps) : ~ps[i].fixed }

AllFlat(ps) == \A i \in 1..Len(ps) : ps[i].distribution \in {"uniform", "flat", "fixed"}

(***************************************************************************)
(* Parameter binding (utils.generate_pymc_distribution,                    *)
(* model._initialise_parameters)                                           *)
(***************************************************************************)
\* an override that flattens every free parameter
MleKind_flatten(p, mle) ==
    IF mle /\ p.distribution # "fixed" THEN "flat" ELSE p.distribution

\* an override that ignores the bounds
MleKind_uniform(p, mle) ==
    IF mle /\ p.distribution \notin {"uniform", "flat", "fixed"}
    THEN "uniform" ELSE p.distribution

\* the MLE override rewrites the kind of a parameter that is not uniform,
\* flat or fixed: uniform when both bounds are given, flat otherwise
MleKind(p, mle) ==
    IF mle /\ p.distribution \notin {"uniform", "flat", "fixed"}
    THEN (IF p.upper_bound /\ p.lower_bound THEN "uniform" ELSE "flat")
    ELSE p.distribution

\* the distribution object built for a parameter of the given kind: its
\* family and the change of variables pymc3 applies to it
Distribution(p, kind) ==
    CASE p.fixed ->
           [family |-> "constant", transform |-> None]
      [] ~p.fixed /\ kind = "normal" /\ p.lower_bound /\ p.upper_bound ->
           [family |-> "BoundedNormal", transform |-> "interval"]
      [] ~p.fixed /\ kind = "normal" /\ p.lower_bound /\ ~p.upper_bound ->
           [family |-> "BoundedNormal", transform |-> "lowerbound"]
      [] ~p.fixed /\ kind = "normal" /\ ~p.lower_bound ->
           [family |-> "Normal", transform |-> None]
      [] ~p.fixed /\ kind = "uniform" ->
           [family |-> "Uniform", transform |-> "interval"]
      [] ~p.fixed /\ kind = "flat" ->
           [family |-> "Flat", transform |-> None]

\* a binder that leaves the declared kind on the parameter object
generate_pymc_distribution_fresh(p, mle) ==
    LET dist == Distribution(p, MleKind(p, mle))
    IN  [p EXCEPT !.pymc_distribution = dist,
                  !.backward = IF dist.transform # None THEN dist.transform ELSE @]

\* generate_pymc_distribution(p, n_subjects, hierarchical, mle): the parameter
\* object after the call
generate_pymc_distribution(p, mle) ==
    LET kind == MleKind(p, mle)
        dist == Distribution(p, kind)
    IN  [p EXCEPT !.distribution = kind,
                  !.pymc_distribution = dist,
                  !.backward = IF dist.transform # None THEN dist.transform ELSE @]

\* _initialise_parameters: every learning parameter is bound in place
initialise_parameters(ps, mle) ==
    [i \in 1..Len(ps) |-> generate_pymc_distribution(ps[i], mle)]

(***************************************************************************)
(* Observation parameters.  The constructor is given a list whose items    *)
(* are Parameter objects or strings (markers naming a learning parameter); *)
(* an item is [marker, parameter], of a marker only the name matters.      *)
(* self.observation_parameters becomes a list of objects, each             *)
(* [shared, parameter]: shared is 0 for an object of its own and i when    *)
(* the list holds the very object learning_parameters[i].                  *)
(***************************************************************************)
Marker(name) == [marker |-> TRUE, parameter |-> [name |-> name]]

Free(p) == [marker |-> FALSE, parameter |-> p]

\* the greatest i with ps[i].name = name (the last match of the loop wins),
\* 0 when no parameter has the name
Position(ps, name) ==
    LET at == { i \in 1..Len(ps) : ps[i].name = name }
    IN  IF at = {} THEN 0 ELSE CHOOSE i \in at : \A j \in at : j <= i

\* DMModel.__init__, lines 292-293: the strings and the others
MarkersOf(args) == SelectSeq(args, LAMBDA a : a.marker)

ObjectsOf(args) == SelectSeq(args, LAMBDA a : ~a.marker)

\* line 301: some marker is still a string after the matching loop
Unresolved(ps, args) ==
    \E k \in 1..Len(MarkersOf(args)) : Position(ps, MarkersOf(args)[k].parameter.name) = 0

\* an index list numbered from one
dynamic_inputs_onebased(ps, args) ==
    << 0 >> \o [k \in 1..Len(MarkersOf(args)) |->
                  Position(ps, MarkersOf(args)[k].parameter.name)]

\* lines 295-299: __observation_dynamic_inputs, 0 followed by the index in
\* learning_parameters (counted from 0) of the parameter each marker names
dynamic_inputs(ps, args) ==
    << 0 >> \o [k \in 1..Len(MarkersOf(args)) |->
                  Position(ps, MarkersOf(args)[k].parameter.name) - 1]

\* the observation side of a DMModel after __init__: whether there is an
\* observation model, the names of its free parameters, the index list and
\* the parameter objects; none says the list is [None] (no list was given)
ObservationOf(ps, model, args) ==
    [model |-> model,
     parameters |-> [k \in 1..Len(ObjectsOf(args)) |-> ObjectsOf(args)[k].parameter.name],
     inputs |-> dynamic_inputs(ps, args),
     objects |-> [k \in 1..Len(ObjectsOf(args)) |->
                    [shared |-> 0, parameter |-> ObjectsOf(args)[k].parameter]],
     none |-> FALSE]

\* no observation model and None for its parameters: the first output of the
\* learning model is the prediction
NoObservation ==
    [model |-> FALSE, parameters |-> << >>, inputs |-> << 0 >>, objects |-> << >>,
     none |-> TRUE]

\* a binder that binds every observation parameter on its own
bind_observation_apart(ps, objects, mle) ==
    [n \in 1..Len(objects) |->
        [shared |-> 0,
         parameter |-> generate_pymc_distribution(objects[n].parameter, mle)]]

\* _initialise_parameters, lines 82-90, given the bound learning parameters:
\* an observation parameter whose name no learning parameter has is bound,
\* any other is replaced by the learning parameter of that name
bind_observation(ps, objects, mle) ==
    [n \in 1..Len(objects) |->
        LET i == Position(ps, objects[n].parameter.name)
        IN  IF i = 0
            THEN [shared |-> 0,
                  parameter |-> generate_pymc_distribution(objects[n].parameter, mle)]
            ELSE [shared |-> i, parameter |-> ps[i]]]

\* _initialise_parameters, lines 70-79, and get_value, line 197: the carried
\* outputs, one per dynamic parameter in the order of the list, by the name
\* of the parameter each carries
DynamicOutputs(ps) ==
    LET dyn == SelectSeq(ps, LAMBDA q : q.dynamic)
    IN  [k \in 1..Len(dyn) |-> dyn[k].name]

\* line 81: observation_parameters[0] of an empty list
NoFirstObservation(obs) == ~obs.none /\ Len(obs.objects) = 0

\* the observation parameters that are objects of their own
OwnObservation(objects) ==
    LET own == SelectSeq(objects, LAMBDA o : o.shared = 0)
    IN  [k \in 1..Len(own) |-> own[k].parameter]

\* get_value, lines 197-203: value[i] for every index of the list, of the
\* list of the first n_dynamic outputs
InputOutOfRange(inputs, k) == \E j \in 1..Len(inputs) : inputs[j] >= k

(***************************************************************************)
(* Composition of the recurrence (theano scan as used by get_value and     *)
(* simulate): outputs_info holds the dynamic parameters followed by        *)
(* n_returns - n_dynamic empty slots; scan refuses a step function whose   *)
(* number of outputs differs from the length of outputs_info.              *)
(***************************************************************************)
Max(a, b) == IF a >= b THEN a ELSE b

\* len(dynamic + [None] * (n_returns - n_dynamic))
OutputsInfoLen(f, k) == k + Max(n_returns(f) - k, 0)

\* the ValueError of scan, which get_value rewraps and simulate lets through
ComposeFails(f, k) == OutputsInfoLen(f, k) # n_returns(f)

(***************************************************************************)
(* fit                                                                     *)
(***************************************************************************)
Methods == {"MLE", "mle", "MAP", "Variational", "MCMC", "nuts"}

\* fit_method.lower()
Lower(m) ==
    CASE m \in {"MLE", "mle"} -> "mle"
      [] m \in {"MAP", "map"} -> "map"
      [] m \in {"Variational", "variational"} -> "variational"
      [] m \in {"MCMC", "mcmc"} -> "mcmc"
      [] OTHER -> m

\* fit_method in ['MLE', 'mle']
IsMLE(m) == m \in {"MLE", "mle"}

\* the data files: data set d holds the responses of Subjects(d) subjects,
\* Runs(d) runs each, on Trials(d) trials, and the outcomes; data sets 1 and 2
\* are of one subject, the others of two or more
DataSets == 1..MaxData

Subjects(d) == IF d <= 2 THEN 1 ELSE ((d - 3) % (MaxSubjects - 1)) + 2

Runs(d) == IF d = 2 THEN 2 ELSE 1

\* the rows of the response matrix the loader returns, one per run
Rows(d) == Subjects(d) * Runs(d)

Trials(d) == d + 1

\* whether the file carries the simulated parameter values (self.sims)
HasSims(d) == d \in {2, 3}

\* a comparison of the method as the caller spelled it
NeedsRebuild_spelled(model, fm, ns, method, n) ==
    ~model.exists \/ fm # method \/ n # ns

\* the condition under which fit creates the model anew
NeedsRebuild(model, fm, ns, method, n) ==
    ~model.exists \/ fm # Lower(method) \/ n # ns

\* utils.generate_pymc_distribution, lines 54-58, 67-71, 79-83: group-level
\* hyper-priors are created for a free normal parameter bound hierarchically
Hyperpriors(p, hierarchical) ==
    ~p.fixed /\ hierarchical /\ p.distribution = "normal"

\* a model compiled with the default objective whatever the call asks for
create_model_default(ps, mle, n, logp_method) ==
    [exists |-> TRUE, mle |-> mle, n_subjects |-> n,
     priors |-> [i \in 1..Len(ps) |-> ps[i].pymc_distribution],
     hierarchical |-> FALSE,
     hyper |-> [i \in 1..Len(ps) |-> Hyperpriors(ps[i], FALSE)],
     logp_method |-> "ll"]

\* _create_model: the compiled model over the bound parameters; the binder is
\* always given hierarchical=False (line 337); the objective is the one of
\* self.logp_method at the time of the build
create_model(ps, mle, n, logp_method) ==
    [exists |-> TRUE, mle |-> mle, n_subjects |-> n,
     priors |-> [i \in 1..Len(ps) |-> ps[i].pymc_distribution],
     hierarchical |-> FALSE,
     hyper |-> [i \in 1..Len(ps) |-> Hyperpriors(ps[i], FALSE)],
     logp_method |-> logp_method]

\* _PyMCModel.logp, lines 227-234: the objectives it knows
LogpMethods == {"ll", "r2"}

\* a name letter by letter, as far as its underscores go: the words between
\* underscores are single symbols
Spelling(name) ==
    CASE name = "alpha_b" -> << "alpha", "_", "b" >>
      [] name = "alpha__b" -> << "alpha", "_", "_", "b" >>
      [] OTHER -> << name >>

\* the name pymc3 gives the variable it estimates: the name of the parameter,
\* followed for a transformed variable by an underscore, the name of the
\* transform and two underscores
VarName(name, transform) ==
    IF transform = None THEN Spelling(name)
    ELSE Spelling(name) \o << "_", transform, "_", "_" >>

\* the estimate an estimator finds on a compiled model and the data its
\* holders hold: one raw value per free variable of the model, named as pymc3
\* names it (the transformed variable when a change of variables applies)
Estimate(ps, model, data) ==
    [i \in FreeIndices(ps) |->
        [name |-> ps[i].name,
         key |-> VarName(ps[i].name, model.priors[i].transform),
         transform |-> model.priors[i].transform,
         raw |-> [family |-> model.priors[i].family, data |-> data]]]

\* line 626, re.search('.+(?=_.+__)', m).group(): the longest beginning of m
\* that is followed by an underscore, at least one more character and,
\* somewhere after it, two underscores; << >> when there is none
Search(m) ==
    LET ends == { k \in 1..(Len(m) - 1) :
                    /\ m[k + 1] = "_"
                    /\ \E j \in (k + 3)..(Len(m) - 1) : m[j] = "_" /\ m[j + 1] = "_" }
    IN  IF ends = {} THEN << >>
        ELSE SubSeq(m, 1, CHOOSE k \in ends : \A j \in ends : j <= k)

\* line 628: '__' in m
Mangled(m) == \E j \in 1..(Len(m) - 1) : m[j] = "_" /\ m[j + 1] = "_"

\* line 627: the keys m of the estimate taken to be the variable of p
KeysOf(p, est) ==
    { k \in DOMAIN est :
        Search(est[k].key) = Spelling(p.name) \/ est[k].key = Spelling(p.name) }

\* line 629: p.backward of a parameter that never was given one
UntransformFails(ps, est) ==
    \E i \in 1..Len(ps) : \E k \in KeysOf(ps[i], est) :
        Mangled(est[k].key) /\ ps[i].backward = None

\* _fit_MAP, lines 622-633: every parameter gets the value of the keys taken
\* for it (the last of them, were there several), through its stored
\* backward transform when the key holds two underscores in a row
Untransform(ps, est) ==
    [i \in { j \in 1..Len(ps) : KeysOf(ps[j], est) # {} } |->
        LET k == CHOOSE k \in KeysOf(ps[i], est) : \A j \in KeysOf(ps[i], est) : j <= k
        IN  [name |-> ps[i].name,
             backward |-> IF Mangled(est[k].key) THEN ps[i].backward ELSE None,
             raw |-> est[k].raw]]

\* logp(fit_values): the log likelihood of an estimate, a negative number
\* that depends on the data and the variables estimated
logp(est, data) == 0 - (data + Cardinality(DOMAIN est))

\* floor(1000 * ln n) for the trial counts of the model
LnMilli(n) ==
    CASE n = 1 -> 0 [] n = 2 -> 693 [] n = 3 -> 1098 [] n = 4 -> 1386
      [] n = 5 -> 1609 [] n = 6 -> 1791 [] n = 7 -> 1945 [] OTHER -> 2079

\* utils.model_fit: log likelihood, BIC and AIC, in thousandths
model_fit(ll, k, n) ==
    [log_likelihood |-> 1000 * ll,
     BIC |-> k * LnMilli(n) - 2 * 1000 * ll,
     AIC |-> 2 * 1000 * (k - ll),
     set |-> TRUE]

NoModel == [exists |-> FALSE]
NoHolders == [exists |-> FALSE]
NoFitValues == [by |-> None, values |-> << >>]
NoStats == [log_likelihood |-> 0, BIC |-> 0, AIC |-> 0, set |-> FALSE]
NoFunction == [exists |-> FALSE]
NoSimulated == [rows |-> 0]

\* the keyword arguments of fit the model follows, and their defaults
Options(hierarchical, recovery, logp_method) ==
    [hierarchical |-> hierarchical, recovery |-> recovery, logp_method |-> logp_method]

DefaultOptions == Options(FALSE, FALSE, "ll")

\* the record of one call: what was asked and what the call did
Call(op, method, n, reached, rebuilt, estimated, compiled, result) ==
    [op |-> op, method |-> method, n_subjects |-> n, reached |-> reached,
     rebuilt |-> rebuilt, estimated |-> estimated, compiled |-> compiled,
     from_fit |-> FALSE, result |-> result,
     options |-> DefaultOptions, given |-> "ok", sims |-> FALSE, notes |-> {}]

NoCall == Call(None, None, 0, FALSE, FALSE, FALSE, FALSE, None)

\* a fit call: its options, and for a call that came to its fit method
\* whether the data carried simulated values and what it warned of or invoked
FitCalled(call, opts, sims, notes) ==
    [call EXCEPT !.options = opts, !.sims = sims, !.notes = notes]

\* the estimator a fit method runs, None for a method fit rejects
Estimator(method) ==
    CASE method \in {"MLE", "mle", "MAP", "map"} -> "find_MAP"
      [] method \in {"variational", "Variational"} -> "ADVI"
      [] method \in {"MCMC", "mcmc"} -> "NUTS"
      [] OTHER -> None

\* lines 477-480 and 537-540: a hierarchical request on fewer than two
\* subjects is warned of and dropped
HierarchicalNotes(opts, n) ==
    IF opts.hierarchical /\ n < 2 THEN {"warning: hierarchical"} ELSE {}

\* lines 504-507, 568-569 and 645-646: the recovery analysis is invoked when
\* asked for and the data carry simulated values; _fit_MCMC warns when they
\* carry none, _fit_variational and _fit_MAP have no such branch
RecoveryNotes(estimator, opts, sims) ==
    IF opts.recovery /\ sims THEN {"recovery"}
    ELSE IF opts.recovery /\ estimator = "NUTS" THEN {"warning: no simulations"}
    ELSE {}

\* the recovery analysis a fit method invokes raises (recovery, lines
\* 1167-1168) when the simulated values of the data lack the column of a
\* fitted parameter
Unrecoverable(est, opts, sims) == est = "no_column" /\ opts.recovery /\ sims

\* a _fit_MAP that marks the fit complete before the estimator has returned
fit_MAP_early(ps, model, method, data, rebuild, est, opts) ==
    /\ fit_complete' = TRUE
    /\ fit_values' = IF est = "ok"
                     THEN [by |-> "find_MAP",
                           values |-> Untransform(ps, Estimate(ps, model, data))]
                     ELSE fit_values
    /\ fit_stats' = IF est = "ok"
                    THEN model_fit(logp(Estimate(ps, model, data), data),
                                   Cardinality(FreeIndices(ps)), Trials(data))
                    ELSE fit_stats
    /\ last' = FitCalled(Call("fit", Lower(method), Subjects(data), TRUE, rebuild, TRUE, FALSE,
                              CASE est = "ok" -> "ok"
                                [] est = "raise" -> "Error: estimator"
                                [] OTHER -> "Error: estimator, other"),
                         opts, HasSims(data),
                         CASE est = "ok" -> RecoveryNotes("find_MAP", opts, HasSims(data))
                           [] est = "raise" -> {"warning: fitting failed"}
                           [] OTHER -> {})

\* _fit_MAP: find_MAP runs; a ValueError it raises is warned of and raised
\* again, any other error passes through; otherwise the values are
\* back-transformed and the fit statistics computed from the estimate
fit_MAP(ps, model, method, data, rebuild, est, opts) ==
    LET call(estimated, result) ==
            Call("fit", Lower(method), Subjects(data), TRUE, rebuild, estimated, FALSE, result)
    IN
    IF est = "raise"
    THEN /\ last' = FitCalled(call(TRUE, "Error: estimator"), opts, HasSims(data),
                              {"warning: fitting failed"})
         /\ UNCHANGED <<fit_complete, fit_values, fit_stats>>
    ELSE IF est \notin {"ok", "no_column"}
    THEN /\ last' = FitCalled(call(TRUE, "Error: estimator, other"), opts, HasSims(data), {})
         /\ UNCHANGED <<fit_complete, fit_values, fit_stats>>
    ELSE IF UntransformFails(ps, Estimate(ps, model, data))
    THEN \* lines 619-629: the fit is marked complete, then p.backward fails
         /\ fit_complete' = TRUE
         /\ last' = FitCalled(call(TRUE, "AttributeError: backward"), opts, HasSims(data), {})
         /\ UNCHANGED <<fit_values, fit_stats>>
    ELSE IF Unrecoverable(est, opts, HasSims(data))
    THEN \* lines 619-646: the fit is marked complete and its values stored
         \* before recovery raises; line 651 is not reached
         /\ fit_complete' = TRUE
         /\ fit_values' = [by |-> "find_MAP",
                           values |-> Untransform(ps, Estimate(ps, model, data))]
         /\ last' = FitCalled(call(TRUE, "ValueError: no simulated values"), opts,
                              HasSims(data), {"recovery"})
         /\ UNCHANGED fit_stats
    ELSE /\ fit_complete' = TRUE
         /\ fit_values' = [by |-> "find_MAP",
                           values |-> Untransform(ps, Estimate(ps, model, data))]
         /\ fit_stats' = model_fit(logp(Estimate(ps, model, data), data),
                                   Cardinality(FreeIndices(ps)), Trials(data))
         /\ last' = FitCalled(call(TRUE, "ok"), opts, HasSims(data),
                              RecoveryNotes("find_MAP", opts, HasSims(data)))

\* _fit_variational and _fit_MCMC: the posterior means of the trace become
\* the fit values; the fit statistics are not computed (lines 518 and 580)
fit_trace(ps, model, method, data, rebuild, est, opts) ==
    LET call(estimated, result) ==
            Call("fit", Lower(method), Subjects(data), TRUE, rebuild, estimated, FALSE, result)
        warned == HierarchicalNotes(opts, Subjects(data))
    IN
    IF est \notin {"ok", "no_column"}
    THEN /\ last' = FitCalled(call(TRUE, IF est = "raise" THEN "Error: estimator"
                                         ELSE "Error: estimator, other"),
                              opts, HasSims(data), warned)
         /\ UNCHANGED <<fit_complete, fit_values, fit_stats>>
    ELSE IF Unrecoverable(est, opts, HasSims(data))
    THEN \* the values are stored (lines 495 and 558) before recovery raises
         \* (505 and 569); _fit_variational has marked the fit complete by
         \* then (559), _fit_MCMC has not (519)
         /\ fit_values' = [by |-> "trace", values |-> Estimate(ps, model, data)]
         /\ fit_complete' = IF Estimator(method) = "ADVI" THEN TRUE ELSE fit_complete
         /\ last' = FitCalled(call(TRUE, "ValueError: no simulated values"), opts,
                              HasSims(data), warned \cup {"recovery"})
         /\ UNCHANGED fit_stats
    ELSE /\ fit_complete' = TRUE
         /\ fit_values' = [by |-> "trace", values |-> Estimate(ps, model, data)]
         /\ last' = FitCalled(call(TRUE, "ok"), opts, HasSims(data),
                              warned \cup RecoveryNotes(Estimator(method), opts, HasSims(data)))
         /\ UNCHANGED fit_stats

\* fit(responses, outcomes, fit_method, hierarchical, recovery, logp_method):
\* load, validate, build or reuse the compiled model, give the data holders
\* their new values, estimate.
\*   data   - the subjects, responses and outcomes the files hold
\*   given  - "ok", "no_outcomes" (none given, none in the file) or
\*            "mismatch" (response and outcome trial counts differ)
\*   est    - whether the estimator returns ("ok"), raises a ValueError
\*            ("raise") or raises another error ("raise_other"), or returns
\*            on data whose simulated values lack a column ("no_column")
\*   opts   - the keyword arguments
FitCall(method, data, given, est, opts) ==
    LET n       == Subjects(data)
        rebuild == NeedsRebuild(pymc3_model, fit_method, n_subjects, method, n)
        bound   == initialise_parameters(learning_parameters, IsMLE(method))
        objects == bind_observation(bound, observation.objects, IsMLE(method))
        empty   == NoFirstObservation(observation)
        fails   == ComposeFails(learning_model, n_dynamic(learning_parameters))
        range   == InputOutOfRange(observation.inputs, n_dynamic(learning_parameters))
        \* self.params: the learning parameters, then the observation parameters
        params  == IF rebuild THEN bound \o OwnObservation(objects)
                   ELSE learning_parameters \o OwnObservation(observation.objects)
        model   == IF rebuild THEN create_model(params, IsMLE(method), n, opts.logp_method)
                   ELSE pymc3_model
        ps      == IF rebuild THEN bound ELSE learning_parameters
        failed(reached, rebuilt, result) ==
            [FitCalled(Call("fit", Lower(method), n, reached, rebuilt, FALSE, FALSE, result),
                       opts, FALSE, {}) EXCEPT !.given = given]
    IN
    /\ UNCHANGED <<learning_model, declared, simulate_function,
                   sim_learning_parameters, simulated, n_compiled>>
    /\ IF given = "no_outcomes"
       THEN \* lines 386-388: nothing has been touched yet
            /\ last' = failed(FALSE, FALSE, "ValueError: no outcomes")
            /\ UNCHANGED <<learning_parameters, observation, pymc3_model, fit_method,
                           n_subjects, holders, fit_complete, fit_values, fit_stats>>
       ELSE IF Rows(data) = 1
       THEN \* lines 409-412: the only row is taken out of the matrix, and the
            \* second dimension is asked of the vector that is left
            /\ last' = failed(FALSE, FALSE, "IndexError")
            /\ UNCHANGED <<learning_parameters, observation, pymc3_model, fit_method,
                           n_subjects, holders, fit_complete, fit_values, fit_stats>>
       ELSE IF given = "mismatch"
       THEN \* lines 412-414
            /\ last' = failed(FALSE, FALSE, "ValueError: unequal lengths")
            /\ UNCHANGED <<learning_parameters, observation, pymc3_model, fit_method,
                           n_subjects, holders, fit_complete, fit_values, fit_stats>>
       ELSE IF rebuild /\ (empty \/ fails \/ range \/ opts.logp_method \notin LogpMethods)
       THEN \* lines 427-432: new holders, then _create_model raises: in the
            \* binder after the learning parameters are bound (line 81), in
            \* get_value (scan, then line 203) or, after it, in logp (line 234)
            /\ holders' = [exists |-> TRUE, value |-> data]
            /\ n_subjects' = n
            /\ learning_parameters' = bound
            /\ observation' = IF empty THEN observation
                              ELSE [observation EXCEPT !.objects = objects]
            /\ last' = failed(TRUE, TRUE,
                              CASE empty -> "IndexError: observation parameters"
                                [] ~empty /\ fails -> "ValueError: arity"
                                [] ~empty /\ ~fails /\ range -> "IndexError: observation inputs"
                                [] OTHER -> "ValueError: likelihood")
            /\ UNCHANGED <<pymc3_model, fit_method, fit_complete, fit_values,
                           fit_stats>>
       ELSE /\ holders' = [exists |-> TRUE, value |-> data]
            /\ n_subjects' = n
            /\ learning_parameters' = ps
            /\ observation' = IF rebuild THEN [observation EXCEPT !.objects = objects]
                              ELSE observation
            /\ pymc3_model' = model
            /\ fit_method' = Lower(method)
            /\ IF Estimator(method) = None
               THEN \* lines 459-461
                    /\ last' = failed(TRUE, rebuild, "ValueError: method")
                    /\ UNCHANGED <<fit_complete, fit_values, fit_stats>>
               ELSE IF Estimator(method) = "find_MAP"
               THEN fit_MAP(params, model, method, data, rebuild, est, opts)
               ELSE fit_trace(params, model, method, data, rebuild, est, opts)

\* a fit call with the default keyword arguments
Fit(method, data, given, est) == FitCall(method, data, given, est, DefaultOptions)

(***************************************************************************)
(* simulate: the parameter grid (lines 763-803)                            *)
(***************************************************************************)
\* the values a caller gives for one parameter: a single value or a list
Supplied(name, scalar, values) == [name |-> name, scalar |-> scalar, values |-> values]

\* lines 772-778: a value without a length becomes a one-element list
Listify(e) == [e EXCEPT !.scalar = FALSE]

RECURSIVE Product(_)
\* itertools.product(*parameter_values): every combination, the last list
\* varying fastest
Product(lists) ==
    IF Len(lists) = 0 THEN << << >> >>
    ELSE LET rest == Product(Tail(lists))
             first == Head(lists)
         IN  [r \in 1..(Len(first) * Len(rest)) |->
                << first[((r - 1) \div Len(rest)) + 1] >>
                   \o rest[((r - 1) % Len(rest)) + 1]]

\* lines 789-793: row i takes the i-th value of every list
Pairs(lists) ==
    [i \in 1..Len(lists[1]) |-> [j \in 1..Len(lists) |-> lists[j][i]]]

SameLengths(lists) == \A j \in 1..Len(lists) : Len(lists[j]) = Len(lists[1])

\* ndarray.repeat(n, axis=0): every row n times in a row
Repeat(rows, n) == [r \in 1..(Len(rows) * n) |-> rows[((r - 1) \div n) + 1]]

\* pairs that are not repeated for the subjects
Combinations_once(lists, combinations, n, params_from_fit) ==
    IF combinations THEN Repeat(Product(lists), n) ELSE Pairs(lists)

\* p_combinations
Combinations(lists, combinations, n, params_from_fit) ==
    IF combinations THEN Repeat(Product(lists), n)
    ELSE IF params_from_fit THEN Pairs(lists)
    ELSE Repeat(Pairs(lists), n)

\* lines 799-803: each parameter gets its column of the grid
Columns(entries, grid) ==
    [j \in 1..Len(entries) |->
        Supplied(entries[j].name, FALSE, [r \in 1..Len(grid) |-> grid[r][j]])]

\* lines 836-846: every declared learning parameter has a supplied value
AllMatched(ps, entries) ==
    \A i \in 1..Len(ps) : \E j \in 1..Len(entries) : entries[j].name = ps[i].name

\* the names, in the order declared, that have no supplied value
Unmatched(names, entries) ==
    SelectSeq(names, LAMBDA nm : \A j \in 1..Len(entries) : entries[j].name # nm)

ParameterNames(ps) == [i \in 1..Len(ps) |-> ps[i].name]

\* lines 836-856: the parameter the ValueError names, None when every
\* declared learning parameter and, with an observation model, every declared
\* observation parameter has a value
FirstUnmatched(ps, obs, entries, obs_entries) ==
    LET l == Unmatched(ParameterNames(ps), entries)
        o == IF obs.model THEN Unmatched(obs.parameters, obs_entries) ELSE << >>
    IN  IF Len(l) > 0 THEN l[1] ELSE IF Len(o) > 0 THEN o[1] ELSE None

(***************************************************************************)
(* simulate: the outcome array (lines 861-884); a shape is <<rows, columns>> *)
(***************************************************************************)
Transpose(shape) == << shape[2], shape[1] >>

\* np.tile(outcomes, (P / rows, 1)) when there are fewer rows than P; the
\* division is the integer division of Python 2 and never fails
Tiled(shape, P) ==
    IF shape[1] < P THEN << shape[1] * (P \div shape[1]), shape[2] >> ELSE shape

\* line 877: the check that follows the tiling
OutcomesMatch(shape, P) == shape[1] = P \/ shape[2] = P

\* lines 880-884: the array handed to the compiled function
Layout(shape, n, params_from_fit) ==
    LET a == IF params_from_fit THEN shape ELSE Transpose(shape)
    IN  IF a[2] = n THEN Transpose(a) ELSE a

(***************************************************************************)
(* simulate                                                                *)
(***************************************************************************)
\* a function compiled on every call
NeedsCompile_always(f) == TRUE

\* line 897
NeedsCompile(f) == ~f.exists

\* the values found for a simulation without explicit parameters: the fitted
\* value of a parameter that has one, the declared mean of any other
FromFit(ps, values) ==
    [i \in 1..Len(ps) |->
        Supplied(ps[i].name, FALSE,
                 << IF \E j \in DOMAIN values : values[j].name = ps[i].name
                    THEN "fit" ELSE "mean" >>)]

SimCall(from_fit, compiled, result) ==
    [Call("simulate", None, 0, FALSE, FALSE, result = "ok", compiled, result)
        EXCEPT !.from_fit = from_fit]

\* simulate(outcomes, learning_parameters, n_subjects, runs_per_subject,
\* combinations).  in.given: learning_parameters is not None; in.entries: the
\* supplied values; in.outcomes: the outcome array, 1-D or 2-D, or something
\* that is no array (ok = FALSE)
Simulate(in) ==
    LET n       == in.n_subjects * in.runs_per_subject
        all     == in.entries \o in.observation
        lists   == [j \in 1..Len(all) |-> Listify(all[j]).values]
        missing == FirstUnmatched(learning_parameters, observation, in.entries,
                                  in.observation)
        grid    == Combinations(lists, in.combinations, n, FALSE)
        P       == Len(grid)
        shape0  == IF in.outcomes.one_d THEN << 1, in.outcomes.trials >>
                   ELSE << in.outcomes.rows, in.outcomes.trials >>
        tiled   == Tiled(shape0, P)
        k       == n_dynamic(learning_parameters)
        compile == NeedsCompile(simulate_function)
    IN
    /\ UNCHANGED <<learning_model, learning_parameters, declared, observation,
                   pymc3_model, fit_method, n_subjects, holders, fit_complete,
                   fit_values, fit_stats>>
    /\ IF ~in.given /\ ~fit_complete
       THEN \* lines 704-706
            /\ last' = SimCall(TRUE, FALSE, "ValueError: not fit")
            /\ UNCHANGED <<simulate_function, sim_learning_parameters, simulated,
                           n_compiled>>
       ELSE IF ~in.given
       THEN \* lines 731-763: the values of the fit are collected, then
            \* learning_parameters.values() is asked of None
            /\ sim_learning_parameters' = FromFit(learning_parameters, fit_values.values)
            /\ last' = SimCall(TRUE, FALSE, "AttributeError")
            /\ UNCHANGED <<simulate_function, simulated, n_compiled>>
       ELSE IF ~in.outcomes.ok
       THEN \* lines 724-727
            /\ sim_learning_parameters' = in.entries
            /\ last' = SimCall(FALSE, FALSE, "ValueError: outcome format")
            /\ UNCHANGED <<simulate_function, simulated, n_compiled>>
       ELSE IF ~in.combinations /\ Len(lists) = 0
       THEN \* lines 789-792: with no value list at all the length check has
            \* nothing to compare and parameter_values[0] does not exist
            /\ sim_learning_parameters' = << >>
            /\ last' = SimCall(FALSE, FALSE, "IndexError")
            /\ UNCHANGED <<simulate_function, simulated, n_compiled>>
       ELSE IF ~in.combinations /\ ~SameLengths(lists)
       THEN \* lines 789-790
            /\ sim_learning_parameters' = [j \in 1..Len(in.entries) |-> Listify(in.entries[j])]
            /\ last' = SimCall(FALSE, FALSE, "ValueError: unequal value lists")
            /\ UNCHANGED <<simulate_function, simulated, n_compiled>>
       ELSE /\ sim_learning_parameters' = SubSeq(Columns(all, grid), 1, Len(in.entries))
            /\ IF ~AllMatched(learning_parameters, in.entries) \/ missing # None
               THEN \* lines 845-846 and 855-856
                    /\ last' = [SimCall(FALSE, FALSE, "ValueError: no value")
                                    EXCEPT !.notes = {missing}]
                    /\ UNCHANGED <<simulate_function, simulated, n_compiled>>
               ELSE IF ~OutcomesMatch(tiled, P)
               THEN \* lines 877-878
                    /\ last' = SimCall(FALSE, FALSE, "ValueError: outcome count")
                    /\ UNCHANGED <<simulate_function, simulated, n_compiled>>
               ELSE IF compile /\ ComposeFails(learning_model, k)
               THEN \* line 920: scan refuses the step function
                    /\ last' = SimCall(FALSE, FALSE, "ValueError: arity")
                    /\ UNCHANGED <<simulate_function, simulated, n_compiled>>
               ELSE /\ compile => n_compiled < MaxCompiles
                    /\ simulate_function' =
                          IF compile
                          THEN [exists |-> TRUE, fn |-> learning_model, n_dynamic |-> k]
                          ELSE simulate_function
                    /\ n_compiled' = IF compile THEN n_compiled + 1 ELSE n_compiled
                    /\ simulated' = [rows |-> P,
                                     given |-> << shape0[1], shape0[2] >>,
                                     outcomes |-> Layout(tiled, n, FALSE)]
                    /\ last' = SimCall(FALSE, compile, "ok")

(***************************************************************************)
(* The recurrence of the fit path (_PyMCModel.get_value) and of the        *)
(* simulate path (DMModel.simulate), on one run: a column of the outcome   *)
(* matrix; the step functions work elementwise on the runs.                *)
(***************************************************************************)
Min(a, b) == IF a <= b THEN a ELSE b

\* utils.function_wrapper(f, n_returns, n_reused): wrapped(*args), with
\* outs = [args[0]] * n_returns and outs[0:n_reused] = args[1:n_reused + 1]
function_wrapper(nret, nreused, args) ==
    SubSeq(args, 2, Min(nreused + 1, Len(args)))
        \o [i \in 1..Max(nret - nreused, 0) |-> args[1]]

\* the function scan calls at each step: the step function itself, or its
\* wrapped form
Apply(fn, o, t, a) ==
    IF fn.wrapped
    THEN function_wrapper(n_returns(fn.f), fn.n_reused, << o, t >> \o a)
    ELSE LearningStep(fn.f, o, t, a)

RECURSIVE scan(_, _, _, _, _)
\* theano.scan(fn, sequences=[os, ts], outputs_info=carried + [None]...,
\* non_sequences=statics): one tuple of outputs per step, the first
\* Len(carried) outputs fed back; it stops with the shorter sequence
scan(fn, carried, statics, os, ts) ==
    IF Len(os) = 0 \/ Len(ts) = 0 THEN << >>
    ELSE LET outs == Apply(fn, os[1], ts[1], carried \o statics)
         IN  << outs >> \o scan(fn, SubSeq(outs, 1, Len(carried)), statics,
                               Tail(os), Tail(ts))

\* output n of every step
Column(steps, n) == [t \in 1..Len(steps) |-> steps[t][n]]

Ones(n) == [t \in 1..n |-> 1]

\* get_value, lines 175-200: the fold over the outcomes with taps [-1], the
\* one-step fold of the wrapped function over the first outcome, the first
\* n_dynamic outputs of the fold, each behind its trial-0 record
get_value(f, dynamic, statics, x) ==
    LET k      == Len(dynamic)
        value  == scan([f |-> f, wrapped |-> FALSE, n_reused |-> k], dynamic, statics,
                       SubSeq(x, 1, Len(x) - 1), Ones(Len(x) - 1))
        value0 == scan([f |-> f, wrapped |-> TRUE, n_reused |-> k], dynamic, statics,
                       SubSeq(x, 1, 1), SubSeq(Ones(Len(x)), 1, Min(2, Len(x))))
    IN  [n \in 1..k |-> Column(value0, n) \o Column(value, n)]

\* simulate, lines 920-927: the fold over all outcomes and the trial numbers;
\* every carried output is shifted by one row behind its initial value, the
\* other outputs are left as the fold gives them
simulate_value(f, dynamic, statics, x) ==
    LET k     == Len(dynamic)
        value == scan([f |-> f, wrapped |-> FALSE, n_reused |-> k], dynamic, statics,
                      x, [t \in 1..Len(x) |-> t - 1])
    IN  [n \in 1..n_returns(f) |->
            IF n <= k
            THEN << dynamic[n] >> \o SubSeq(Column(value, n), 1, Len(x) - 1)
            ELSE Column(value, n)]

RECURSIVE Carried(_, _, _, _, _)
\* the carried state after folding the outcomes os (with trial inputs ts)
\* from the state c
Carried(f, c, statics, os, ts) ==
    IF Len(os) = 0 THEN c
    ELSE Carried(f, SubSeq(LearningStep(f, os[1], ts[1], c \o statics), 1, Len(c)),
                 statics, Tail(os), Tail(ts))

RecFns == StepFns \cup {"add_t"}

\* the number of static parameters a step function takes
n_static(f) == IF f = "add_pe" THEN 1 ELSE 0

RECURSIVE SeqsOf(_, _)
\* the sequences of length n over S
SeqsOf(S, n) ==
    IF n = 0 THEN { << >> }
    ELSE { << x >> \o r : x \in S, r \in SeqsOf(S, n - 1) }

OutcomeSeqs == UNION { SeqsOf(0..MaxOutcome, n) : n \in 1..MaxTrials }

NoRec == [fn |-> None]

\* a well-formed model (as many dynamic parameters as reused outputs), its
\* parameter values and one run of outcomes
RecInputs ==
    { [fn |-> f, dynamic |-> d, statics |-> st, outcomes |-> x,
       fit |-> << >>, sim |-> << >>, fit_done |-> FALSE, sim_done |-> FALSE] :
        f \in RecFns, d \in UNION { SeqsOf(0..MaxSeed, k) : k \in 1..2 },
        st \in UNION { SeqsOf(0..MaxSeed, k) : k \in 0..1 }, x \in OutcomeSeqs }

(***************************************************************************)
(* The life of one DMModel                                                 *)
(***************************************************************************)
NoRequest == [given |-> FALSE, pending |-> FALSE]

\* the state DMModel.__init__ leaves, for a declared step function,
\* parameter list and observation model
ConstructedWith(f, ps, obs) ==
    /\ learning_model = f
    /\ observation = obs
    /\ learning_parameters = ps
    /\ declared = ps
    /\ pymc3_model = NoModel
    /\ fit_method = None
    /\ n_subjects = 0
    /\ holders = NoHolders
    /\ fit_complete = FALSE
    /\ fit_values = NoFitValues
    /\ fit_stats = NoStats
    /\ simulate_function = NoFunction
    /\ sim_learning_parameters = << >>
    /\ simulated = NoSimulated
    /\ n_compiled = 0
    /\ last = NoCall

Constructed(f, ps) == ConstructedWith(f, ps, NoObservation)

\* the models of Spec: a step function with one carried value, its second
\* parameter declared static or (a mismatch scan refuses) dynamic
Init ==
    /\ \E d \in BOOLEAN :
        Constructed("add", << Parameter("v", "fixed", FALSE, FALSE, TRUE),
                             Parameter("alpha", "uniform", TRUE, TRUE, d) >>)
    /\ request = NoRequest
    /\ rec = NoRec

FitStep ==
    \E method \in Methods, data \in DataSets,
       given \in {"ok", "no_outcomes", "mismatch"}, est \in {"ok", "raise"} :
        /\ Fit(method, data, given, est)
        /\ UNCHANGED <<request, rec>>

Next == FitStep

Spec == Init /\ [][Next]_vars

(***************************************************************************)
(* SpecBind: MLE and MAP fits of models of every declared prior kind       *)
(***************************************************************************)
InitBind ==
    /\ \E ps \in ParameterLists : ~ps[2].dynamic /\ Constructed("add_pe", ps)
    /\ request = NoRequest
    /\ rec = NoRec

FitBind ==
    \E method \in {"MLE", "mle", "MAP"}, data \in DataSets, est \in {"ok", "raise"} :
        /\ Fit(method, data, "ok", est)
        /\ UNCHANGED <<request, rec>>

\* fits by the methods that sample, on one data set
FitBindTrace ==
    \E method \in {"Variational", "MCMC"} :
        /\ Fit(method, 3, "ok", "ok")
        /\ UNCHANGED <<request, rec>>

NextBind == FitBind \/ FitBindTrace

SpecBind == InitBind /\ [][NextBind]_vars

(***************************************************************************)
(* SpecLife: fit and simulate calls on models of every arity               *)
(***************************************************************************)
\* the values a caller supplies: list j has lens[j] values, 10 j + 1, ...
Values(j, n) == [i \in 1..n |-> 10 * j + i]

Entries(ps, lens, scalar) ==
    [j \in 1..Len(lens) |->
        Supplied(ps[j].name, scalar /\ lens[j] = 1, Values(j, lens[j]))]

SimRequest(given, entries, combinations, n, runs, outcomes) ==
    [given |-> given, pending |-> TRUE, entries |-> entries, observation |-> << >>,
     combinations |-> combinations, n_subjects |-> n, runs_per_subject |-> runs,
     outcomes |-> outcomes]

Outcomes(ok, one_d, rows, trials) ==
    [ok |-> ok, one_d |-> one_d, rows |-> rows, trials |-> trials]

InitLife ==
    /\ \E f \in StepFns, d \in BOOLEAN :
        Constructed(f, << Parameter("v", "fixed", FALSE, FALSE, TRUE),
                          Parameter("alpha", "uniform", TRUE, TRUE, d) >>)
    /\ request = NoRequest
    /\ rec = NoRec

FitLife ==
    \E method \in {"MAP", "MCMC"}, est \in {"ok", "raise"} :
        /\ Fit(method, 3, "ok", est)
        /\ UNCHANGED <<request, rec>>

SimulateLife ==
    \E given \in BOOLEAN, lens \in {<<1, 1>>, <<2, 2>>}, ok \in BOOLEAN :
        /\ Simulate(SimRequest(given, Entries(learning_parameters, lens, TRUE),
                               FALSE, 1, 1, Outcomes(ok, TRUE, 1, 2)))
        /\ UNCHANGED <<request, rec>>

NextLife == FitLife \/ SimulateLife

SpecLife == InitLife /\ [][NextLife]_vars

(***************************************************************************)
(* SpecSim: one simulate call with caller-supplied values, on every grid   *)
(* and outcome array of the bounds                                         *)
(***************************************************************************)
SimRequests ==
    { SimRequest(TRUE, Entries(<< [name |-> "v"], [name |-> "alpha"] >>, lens, scalar),
                 c, n, runs, Outcomes(TRUE, one_d, rows, trials)) :
        lens \in (1..MaxVals) \X (1..MaxVals), scalar \in BOOLEAN, c \in BOOLEAN,
        n \in 1..MaxSimSubjects, runs \in 1..MaxSimSubjects, one_d \in BOOLEAN,
        rows \in 1..MaxOutcomeRows, trials \in 2..MaxTrials }

InitSim ==
    /\ Constructed("add_pe", << Parameter("v", "fixed", FALSE, FALSE, TRUE),
                               Parameter("alpha", "uniform", TRUE, TRUE, FALSE) >>)
    /\ request \in SimRequests
    /\ rec = NoRec

SimulateStep ==
    /\ request.pending
    /\ Simulate(request)
    /\ request' = [request EXCEPT !.pending = FALSE]
    /\ UNCHANGED rec

NextSim == SimulateStep

SpecSim == InitSim /\ [][NextSim]_vars

(***************************************************************************)
(* SpecRec: the two recurrences on the same model, values and outcomes     *)
(***************************************************************************)
InitRec ==
    /\ Constructed("add", << Parameter("v", "fixed", FALSE, FALSE, TRUE) >>)
    /\ request = NoRequest
    /\ rec \in { r \in RecInputs : Len(r.dynamic) = n_reused(r.fn)
                                   /\ Len(r.statics) = n_static(r.fn) }

Frame ==
    UNCHANGED <<learning_model, learning_parameters, declared, observation,
                pymc3_model, fit_method, n_subjects, holders, fit_complete, fit_values, fit_stats,
                simulate_function, sim_learning_parameters, simulated,
                n_compiled, last, request>>

RunGetValue ==
    /\ ~rec.fit_done
    /\ rec' = [rec EXCEPT !.fit_done = TRUE,
                          !.fit = get_value(rec.fn, rec.dynamic, rec.statics, rec.outcomes)]
    /\ Frame

RunSimulate ==
    /\ ~rec.sim_done
    /\ rec' = [rec EXCEPT !.sim_done = TRUE,
                          !.sim = simulate_value(rec.fn, rec.dynamic, rec.statics,
                                                 rec.outcomes)]
    /\ Frame

NextRec == RunGetValue \/ RunSimulate

SpecRec == InitRec /\ [][NextRec]_vars

(***************************************************************************)
(* SpecMissing: one simulate call that supplies values for some, all or    *)
(* none of the declared parameters, with and without an observation model  *)
(***************************************************************************)
NameSeqs == { << >>, << "v" >>, << "alpha" >>, << "v", "alpha" >> }

ObservationValues ==
    { << >> } \cup { << Supplied("beta", FALSE, Values(3, n)) >> : n \in 1..MaxVals }

MissingRequests ==
    { [SimRequest(TRUE,
                  Entries([j \in 1..Len(ns) |-> [name |-> ns[j]]],
                          SubSeq(lens, 1, Len(ns)), FALSE),
                  c, 1, 1, Outcomes(TRUE, TRUE, 1, 2))
          EXCEPT !.observation = o] :
        ns \in NameSeqs, lens \in (1..MaxVals) \X (1..MaxVals),
        o \in ObservationValues, c \in BOOLEAN }

InitMissing ==
    /\ LET ps == << Parameter("v", "fixed", FALSE, FALSE, TRUE),
                    Parameter("alpha", "uniform", TRUE, TRUE, FALSE) >>
           beta == Free(Parameter("beta", "uniform", TRUE, TRUE, FALSE))
       IN  \E obs \in {NoObservation, ObservationOf(ps, TRUE, << beta >>)} :
              ConstructedWith("add_pe", ps, obs)
    /\ request \in MissingRequests
    /\ rec = NoRec

SimulateMissing ==
    /\ request.pending
    /\ Simulate(request)
    /\ request' = [request EXCEPT !.pending = FALSE]
    /\ UNCHANGED rec

NextMissing == SimulateMissing

SpecMissing == InitMissing /\ [][NextMissing]_vars

(***************************************************************************)
(* SpecNames: MAP and MLE fits of models with two free parameters, the     *)
(* name of the second beginning with the name of the first                 *)
(***************************************************************************)
InitNames ==
    /\ \E p \in SecondDecls, q \in SecondDecls, name \in {"alpha_b", "alpha__b"} :
          /\ ~p.dynamic /\ ~q.dynamic
          /\ Constructed("add_pe", << Parameter("v", "fixed", FALSE, FALSE, TRUE), p,
                                     [q EXCEPT !.name = name] >>)
    /\ request = NoRequest
    /\ rec = NoRec

FitNames ==
    \E method \in {"MAP", "MLE"}, data \in {3, 4} :
        /\ Fit(method, data, "ok", "ok")
        /\ UNCHANGED <<request, rec>>

NextNames == FitNames

SpecNames == InitNames /\ [][NextNames]_vars

(***************************************************************************)
(* SpecObs: the constructor on lists of observation parameters and         *)
(* markers, then fit calls on the model it made                            *)
(***************************************************************************)
\* before the constructor has run there is no model
Unconstructed == ConstructedWith(None, << >>, NoObservation)

\* DMModel(learning_model, learning_parameters, observation_model,
\* observation_parameters): in.none says None was given for the last one,
\* in.args is the list given otherwise
Construct(in) ==
    LET call(result) == Call("init", None, 0, FALSE, FALSE, FALSE, FALSE, result) IN
    IF ~in.none /\ Unresolved(in.parameters, in.args)
    THEN \* lines 301-302
         /\ last' = call("ValueError: observation inputs")
         /\ UNCHANGED <<learning_model, learning_parameters, declared, observation,
                        pymc3_model, fit_method, n_subjects, holders, fit_complete,
                        fit_values, fit_stats, simulate_function,
                        sim_learning_parameters, simulated, n_compiled>>
    ELSE /\ learning_model' = in.fn
         /\ learning_parameters' = in.parameters
         /\ declared' = in.parameters
         /\ observation' = IF in.none THEN [NoObservation EXCEPT !.model = in.model]
                           ELSE ObservationOf(in.parameters, in.model, in.args)
         /\ last' = call("ok")
         /\ UNCHANGED <<pymc3_model, fit_method, n_subjects, holders, fit_complete,
                        fit_values, fit_stats, simulate_function,
                        sim_learning_parameters, simulated, n_compiled>>

ConstructRequest(fn, ps, model, args, none) ==
    [op |-> "init", given |-> FALSE, pending |-> TRUE, fn |-> fn, parameters |-> ps,
     model |-> model, args |-> args, none |-> none]

\* a model with two carried values, and a model with a carried value and a
\* static parameter listed after it or before it
ObsModels ==
    { << "add_w", << Parameter("v", "fixed", FALSE, FALSE, TRUE),
                     Parameter("w", "uniform", TRUE, TRUE, TRUE) >> >>,
      << "add_pe", << Parameter("v", "fixed", FALSE, FALSE, TRUE),
                      Parameter("alpha", "normal", TRUE, FALSE, FALSE) >> >>,
      << "add_pe", << Parameter("alpha", "normal", TRUE, FALSE, FALSE),
                      Parameter("v", "fixed", FALSE, FALSE, TRUE) >> >> }

\* markers naming v, w, alpha and a name no model has; an observation
\* parameter of its own and one named as the learning parameter alpha
ObsItems ==
    { Marker("v"), Marker("w"), Marker("alpha"), Marker("x"),
      Free(Parameter("beta", "normal", TRUE, TRUE, FALSE)),
      Free(Parameter("alpha", "uniform", TRUE, TRUE, FALSE)) }

MaxObsArgs == 2

ObsArgs == UNION { SeqsOf(ObsItems, n) : n \in 0..MaxObsArgs }

ConstructRequests ==
    { ConstructRequest(m[1], m[2], model, args, FALSE) :
        m \in ObsModels, model \in BOOLEAN, args \in ObsArgs }
    \cup { ConstructRequest(m[1], m[2], model, << >>, TRUE) :
             m \in ObsModels, model \in BOOLEAN }

InitObs ==
    /\ Unconstructed
    /\ request \in ConstructRequests
    /\ rec = NoRec

ConstructStep ==
    /\ request.pending
    /\ Construct(request)
    /\ request' = [request EXCEPT !.pending = FALSE]
    /\ UNCHANGED rec

FitObs ==
    /\ ~request.pending
    /\ learning_model # None
    /\ \E method \in {"MAP", "MLE", "MCMC"}, data \in {3, 4} :
          Fit(method, data, "ok", "ok")
    /\ UNCHANGED <<request, rec>>

NextObs == ConstructStep \/ FitObs

SpecObs == InitObs /\ [][NextObs]_vars

(***************************************************************************)
(* recovery (lines 1145-1227) and SpecRecovery: one recovery call on every *)
(* table of simulated values                                               *)
(***************************************************************************)
RECURSIVE SumSeq(_)
SumSeq(q) == IF Len(q) = 0 THEN 0 ELSE Head(q) + SumSeq(Tail(q))

\* np.diff along the rows of one column
Diff(column) == [r \in 1..(Len(column) - 1) |-> column[r + 1] - column[r]]

\* np.sum(np.diff(parameter_values_sim))
SumDiff(columns) == SumSeq([c \in 1..Len(columns) |-> SumSeq(Diff(columns[c]))])

\* an inverted test
SameAcrossSimulations_inverted(columns) == SumDiff(columns) # 0

\* line 1198: the test for simulations that all used the same values
SameAcrossSimulations(columns) == SumDiff(columns) = 0

\* recovery(): in.sims is the table of simulated values (exists = FALSE for
\* None), one column per simulated parameter and one row per subject;
\* in.fitted says whether there is a parameter table, in.n_fit is the number
\* of fitted parameters in it
Recovery(in) ==
    LET columns == SubSeq(in.sims.columns, 1, in.n_fit)
        rows    == Len(in.sims.columns[1])
        call(result, notes) ==
            [Call("recovery", None, 0, FALSE, FALSE, FALSE, FALSE, result)
                EXCEPT !.notes = notes]
    IN
    /\ last' = IF ~in.sims.exists
               THEN call("AttributeError: no simulated values", {})
               ELSE IF ~in.fitted
               THEN call("AttributeError: not fit", {})
               ELSE IF in.n_fit > Len(in.sims.columns)
               THEN \* lines 1167-1168
                    call("ValueError: no simulated values", {})
               ELSE IF rows > 1
               THEN IF SameAcrossSimulations(columns)
                    THEN call("returns None", {"warning: identical values"})
                    ELSE call("returns correlations", {})
               ELSE call("returns None", {"warning: one row"})
    /\ UNCHANGED <<learning_model, learning_parameters, declared, observation,
                   pymc3_model, fit_method, n_subjects, holders, fit_complete,
                   fit_values, fit_stats, simulate_function,
                   sim_learning_parameters, simulated, n_compiled>>

RecoveryRequest(sims, fitted, n_fit) ==
    [op |-> "recovery", given |-> FALSE, pending |-> TRUE, sims |-> sims,
     fitted |-> fitted, n_fit |-> n_fit]

NoSims == [exists |-> FALSE, columns |-> << << 0 >> >>]

SimTables ==
    { [exists |-> TRUE, columns |-> t] :
        t \in UNION { SeqsOf(SeqsOf(0..MaxSimValue, r), c) :
                        r \in 1..MaxSimRows, c \in 1..2 } }

RecoveryRequests ==
    { RecoveryRequest(t, f, k) : t \in SimTables \cup {NoSims}, f \in BOOLEAN, k \in 1..2 }

InitRecovery ==
    /\ Constructed("add_pe", << Parameter("v", "uniform", TRUE, TRUE, TRUE),
                                Parameter("alpha", "uniform", TRUE, TRUE, FALSE) >>)
    /\ request \in RecoveryRequests
    /\ rec = NoRec

RecoveryStep ==
    /\ request.pending
    /\ Recovery(request)
    /\ request' = [request EXCEPT !.pending = FALSE]
    /\ UNCHANGED rec

NextRecovery == RecoveryStep

SpecRecovery == InitRecovery /\ [][NextRecovery]_vars

(***************************************************************************)
(* SpecOpts: fit calls with their keyword arguments (hierarchical,         *)
(* recovery, logp_method) on a model with a normal prior                   *)
(***************************************************************************)
InitOpts ==
    /\ Constructed("add_pe", << Parameter("v", "fixed", FALSE, FALSE, TRUE),
                                Parameter("alpha", "normal", TRUE, TRUE, FALSE) >>)
    /\ request = NoRequest
    /\ rec = NoRec

\* fits asking for an objective
FitObjective ==
    \E method \in {"MAP", "MCMC"}, data \in {3, 4}, lm \in {"ll", "r2", "mse"} :
        /\ FitCall(method, data, "ok", "ok", Options(FALSE, FALSE, lm))
        /\ UNCHANGED <<request, rec>>

\* fits whose estimator returns or raises
FitEstimate ==
    \E method \in {"MAP", "MCMC"}, est \in {"ok", "raise", "raise_other"} :
        /\ FitCall(method, 3, "ok", est, DefaultOptions)
        /\ UNCHANGED <<request, rec>>

\* fits asking for hierarchical priors
FitHierarchical ==
    \E method \in {"Variational", "MCMC"}, data \in DataSets :
        /\ FitCall(method, data, "ok", "ok", Options(TRUE, FALSE, "ll"))
        /\ UNCHANGED <<request, rec>>

\* fits asking for the recovery analysis
FitRecovery ==
    \E method \in {"MAP", "Variational", "MCMC"}, data \in DataSets,
       est \in {"ok", "no_column"} :
        /\ FitCall(method, data, "ok", est, Options(FALSE, TRUE, "ll"))
        /\ UNCHANGED <<request, rec>>

NextOpts == FitObjective \/ FitEstimate \/ FitHierarchical \/ FitRecovery

SpecOpts == InitOpts /\ [][NextOpts]_vars

(***************************************************************************)
(* Properties                                                              *)
(***************************************************************************)

\* C1 (as the code has it): a fit call that gets past the validation of its
\* data rebuilds the compiled model exactly when none exists, or the method,
\* lowered, differs from the method the object has recorded, or the subject
\* count differs from the recorded one; a call that does not rebuild keeps the
\* compiled model and the parameter bindings and fills the data holders; a
\* call rejected by the validation records nothing, neither method nor count.
C1_Rebuild ==
    [][ last'.op = "fit" =>
          IF last'.reached
          THEN /\ last'.rebuilt <=> (\/ ~pymc3_model.exists
                                     \/ fit_method # last'.method
                                     \/ n_subjects # last'.n_subjects)
               /\ ~last'.rebuilt => /\ pymc3_model' = pymc3_model
                                    /\ learning_parameters' = learning_parameters
                                    /\ holders'.exists
          ELSE UNCHANGED <<pymc3_model, learning_parameters, fit_method,
                           n_subjects, holders>> ]_vars

\* C1 as stated: a fit call (one that gets as far as the rebuild decision)
\* rebuilds exactly when no compiled model exists, or its method or subject
\* count differs from that of the previous fit call.
C1_Original ==
    [][ (last.op = "fit" /\ last'.op = "fit" /\ last'.reached) =>
          (last'.rebuilt <=> (\/ ~pymc3_model.exists
                              \/ last'.method # last.method
                              \/ last'.n_subjects # last.n_subjects)) ]_vars

\* a fit call has reused the compiled model of an earlier call
C1_Witness ==
    /\ last.op = "fit" /\ last.reached /\ ~last.rebuilt /\ last.result = "ok"
    /\ pymc3_model.exists

\* C2 as stated: every dynamic output of the fit-path recurrence has one
\* record per trial, record 0 is the initial value of the dynamic parameter
\* and record t >= 1 is the carried state after outcomes 0..t-1.
C2_Original ==
    rec.fn # None /\ rec.fit_done =>
        \A n \in 1..Len(rec.dynamic) :
            /\ Len(rec.fit[n]) = Len(rec.outcomes)
            /\ rec.fit[n][1] = rec.dynamic[n]
            /\ \A t \in 2..Len(rec.outcomes) :
                  rec.fit[n][t] = Carried(rec.fn, rec.dynamic, rec.statics,
                                          SubSeq(rec.outcomes, 1, t - 1), Ones(t - 1))[n]

\* C3 as stated: for the same parameter values and outcomes the simulate path
\* and the fit path give the same sequence for every dynamic output.
C3_Original ==
    rec.fn # None /\ rec.fit_done /\ rec.sim_done =>
        \A n \in 1..Len(rec.dynamic) : rec.sim[n] = rec.fit[n]

\* the models whose number of dynamic parameters is not the number of outputs
\* the step function reuses
Mismatched == n_dynamic(declared) # n_reused(learning_model)

\* C4 as stated: no model with mismatched counts reaches the evaluation of the
\* recurrence: its fit and simulate calls fail before.
C4_Original ==
    Mismatched /\ last.op # None => ~last.estimated /\ last.result # "ok"

\* the lengths of the value lists the caller of simulate gave
GivenLens == [j \in 1..Len(request.entries) |-> Len(request.entries[j].values)]

RECURSIVE Times(_)
Times(lens) == IF Len(lens) = 0 THEN 1 ELSE Head(lens) * Times(Tail(lens))

\* C5: after a simulate call with supplied values, every parameter has
\* (product of the list lengths) * n_subjects * runs_per_subject values with
\* combinations, L * n_subjects * runs_per_subject values without when the
\* lists have one length L, the rows of one replication block holding the
\* i-th value of every list; lists of differing lengths without combinations
\* end the call with a ValueError.
C5_Grid ==
    request.given /\ ~request.pending =>
        LET n == request.n_subjects * request.runs_per_subject
            lens == GivenLens
            out == sim_learning_parameters
        IN  IF request.combinations
            THEN \A j \in 1..Len(out) : Len(out[j].values) = Times(lens) * n
            ELSE IF \A j \in 1..Len(lens) : lens[j] = lens[1]
            THEN \A j \in 1..Len(out) :
                    /\ Len(out[j].values) = lens[1] * n
                    /\ \A r \in 1..(lens[1] * n) :
                          out[j].values[r] = request.entries[j].values[((r - 1) \div n) + 1]
            ELSE last.result = "ValueError: unequal value lists"

\* lists of 3 and 4 values have been combined into 12 rows per replication
C5_Witness ==
    /\ request.given /\ ~request.pending /\ request.combinations
    /\ GivenLens = <<3, 4>>
    /\ request.n_subjects * request.runs_per_subject = 2
    /\ Len(sim_learning_parameters[1].values) = 24
    /\ last.result = "ok"

\* C6 as stated: simulate without parameter values fails with a configuration
\* error before any fit has completed and runs to completion after one.
C6_Original ==
    last.op = "simulate" /\ last.from_fit =>
        IF fit_complete THEN last.result = "ok"
        ELSE last.result = "ValueError: not fit"

\* C7 as stated: after a fit call that returns without error the fit is
\* complete and log likelihood, BIC and AIC are those of the call's estimate.
C7_Original ==
    last.op = "fit" /\ last.result = "ok" =>
        /\ fit_complete
        /\ fit_stats = model_fit(logp(Estimate(learning_parameters, pymc3_model,
                                               holders.value), holders.value),
                                 Cardinality(FreeIndices(learning_parameters)),
                                 Trials(holders.value))

\* C8: on a model declared with uniform, flat or fixed parameters only, a fit
\* with MLE or MAP that returns leaves the priors of the declaration bound,
\* and the fit values are those of find_MAP on these priors and the data,
\* back-transformed: nothing in them depends on which of the two was asked.
C8_MleIsMap ==
    AllFlat(declared) /\ last.op = "fit" /\ last.result = "ok"
            /\ last.method \in {"mle", "map"} =>
        LET ps == initialise_parameters(declared, FALSE)
            m  == create_model(ps, FALSE, Subjects(holders.value), "ll")
        IN  /\ learning_parameters = ps
            /\ pymc3_model.priors = m.priors
            /\ fit_values = [by |-> "find_MAP",
                             values |-> Untransform(ps, Estimate(ps, m, holders.value))]

\* an MLE fit of a model with a uniform parameter has returned
C8_Witness ==
    /\ AllFlat(declared) /\ last.op = "fit" /\ last.result = "ok"
    /\ last.method = "mle"
    /\ \E i \in FreeIndices(declared) : declared[i].distribution = "uniform"

\* C9 as stated: with fewer outcome sequences than simulated rows the call
\* succeeds on a tiled array when the row count is a multiple of the outcome
\* count and fails with a ValueError whenever it is not.
C9_Original ==
    request.given /\ ~request.pending
            /\ last.result # "ValueError: unequal value lists" =>
        LET P == Len(sim_learning_parameters[1].values)
            rows == IF request.outcomes.one_d THEN 1 ELSE request.outcomes.rows
        IN  rows < P =>
              IF P % rows = 0 THEN last.result = "ok"
              ELSE last.result = "ValueError: outcome count"

\* C10: the simulation function is compiled at most once; once stored it is
\* never replaced, and a simulate call that runs compiles exactly when no
\* function is stored.
C10_CompiledOnce ==
    [][ /\ n_compiled' <= 1
        /\ simulate_function.exists =>
              simulate_function' = simulate_function /\ n_compiled' = n_compiled
        /\ last'.op = "simulate" /\ last'.result = "ok" =>
              /\ simulate_function'.exists
              /\ last'.compiled <=> ~simulate_function.exists ]_vars

\* a simulate call has run on the function an earlier call compiled
C10_Witness ==
    /\ last.op = "simulate" /\ last.result = "ok" /\ ~last.compiled
    /\ n_compiled = 1 /\ simulate_function.exists

\* C11 as stated: a fit call with an unknown fit method leaves the compiled
\* model, the data holders, the recorded method and subject count and the
\* parameter bindings as they were before the call.
C11_Original ==
    [][ last'.op = "fit" /\ last'.result = "ValueError: method" =>
            UNCHANGED <<pymc3_model, holders, fit_method, n_subjects,
                        learning_parameters>> ]_vars

\* C19 as stated: a fit call whose responses and outcomes differ in their
\* number of trials fails with the length-mismatch error, whatever the number
\* of subjects, and leaves the compiled model and the data holders alone.
C19_Original ==
    [][ last'.op = "fit" /\ last'.given = "mismatch" =>
            /\ last'.result = "ValueError: unequal lengths"
            /\ UNCHANGED <<pymc3_model, holders>> ]_vars

\* C12 as stated: every fit call (that gets past the validation of its data)
\* asking for an objective other than 'll' and 'r2' fails with the ValueError
\* of the objective, on the first fit and on every later one.
C12_Original ==
    last.op = "fit" /\ last.reached /\ last.options.logp_method \notin LogpMethods =>
        last.result = "ValueError: likelihood"

\* C13 (as the code has it): when find_MAP raises in a MAP or MLE fit the call
\* ends with that error and leaves fit_complete, fit_values and the fit
\* statistics as they were; the warning is emitted exactly when the error is
\* a ValueError.
C13_NoPartial ==
    [][ last'.op = "fit" /\ last'.method \in {"mle", "map"}
            /\ last'.result \in {"Error: estimator", "Error: estimator, other"} =>
            /\ last'.estimated
            /\ UNCHANGED <<fit_complete, fit_values, fit_stats>>
            /\ ("warning: fitting failed" \in last'.notes)
                  <=> (last'.result = "Error: estimator") ]_vars

\* C13 as stated: whenever find_MAP raises in a MAP or MLE fit the warning is
\* emitted and nothing of an earlier fit is overwritten.
C13_Original ==
    [][ last'.op = "fit" /\ last'.method \in {"mle", "map"}
            /\ last'.result \in {"Error: estimator", "Error: estimator, other"} =>
            /\ UNCHANGED <<fit_complete, fit_values, fit_stats>>
            /\ "warning: fitting failed" \in last'.notes ]_vars

\* find_MAP has raised a ValueError after an earlier MAP fit had completed,
\* and the values of that fit are still there
C13_Witness ==
    /\ last.op = "fit" /\ last.method = "map" /\ last.result = "Error: estimator"
    /\ "warning: fitting failed" \in last.notes
    /\ fit_complete /\ fit_values.by = "find_MAP" /\ fit_stats.set

\* C14 as stated: a variational or MCMC fit with hierarchical=True on one
\* subject, the estimator not failing, warns and completes.
C14_Original ==
    last.op = "fit" /\ last.method \in {"variational", "mcmc"}
            /\ last.options.hierarchical /\ last.n_subjects = 1
            /\ last.options.logp_method \in LogpMethods
            /\ last.result \notin {"Error: estimator", "Error: estimator, other"} =>
        last.result = "ok" /\ "warning: hierarchical" \in last.notes

\* C15 as stated: after a variational or MCMC fit with hierarchical=True on
\* two or more subjects the compiled model is bound hierarchically and has
\* group-level hyper-priors.
C15_Original ==
    last.op = "fit" /\ last.method \in {"variational", "mcmc"}
            /\ last.options.hierarchical /\ last.n_subjects >= 2
            /\ last.result = "ok" =>
        /\ pymc3_model.hierarchical
        /\ \E i \in 1..Len(pymc3_model.hyper) : pymc3_model.hyper[i]

\* C16 as stated: after a fit of any method that returns, with recovery
\* asked for, the recovery analysis has been invoked if the data carry
\* simulated values and a warning has been emitted if they carry none.
C16_Original ==
    last.op = "fit" /\ last.result = "ok" /\ last.options.recovery =>
        IF last.sims THEN "recovery" \in last.notes
        ELSE "warning: no simulations" \in last.notes

\* the columns of simulated values a recovery call compared, and whether all
\* their rows hold the same values
Compared == SubSeq(request.sims.columns, 1, request.n_fit)

OneCombination ==
    \A c \in 1..Len(Compared) : \A r \in 1..Len(Compared[c]) :
        Compared[c][r] = Compared[c][1]

\* C17: a recovery call that returns, on one row or on rows that all hold the
\* same simulated values, returns None after a warning; it returns
\* correlations only on more than one row with differing simulated values.
C17_Degenerate ==
    request.pending = FALSE /\ last.op = "recovery"
            /\ last.result \in {"returns None", "returns correlations"} =>
        /\ (Len(Compared[1]) = 1 \/ OneCombination) =>
              last.result = "returns None" /\ last.notes # {}
        /\ last.result = "returns correlations" =>
              Len(Compared[1]) > 1 /\ ~OneCombination

\* recovery has returned None on several rows of one parameter combination
C17_Witness ==
    /\ request.pending = FALSE /\ last.op = "recovery"
    /\ last.result = "returns None"
    /\ last.notes = {"warning: identical values"}
    /\ Len(Compared[1]) > 1 /\ OneCombination

\* the first declared parameter a simulate request gives no value for
NotSupplied ==
    FirstUnmatched(learning_parameters, observation, request.entries,
                   request.observation)

\* C18 as stated: a simulate call with supplied values that leaves a declared
\* learning parameter, or with an observation model a declared observation
\* parameter, without a value fails with a ValueError before the simulation
\* function is compiled or invoked, the parameter check naming such a
\* parameter.
C18_Original ==
    request.given /\ request.pending = FALSE /\ NotSupplied # None =>
        /\ last.result \in {"ValueError: no value", "ValueError: unequal value lists"}
        /\ last.result = "ValueError: no value" => last.notes = {NotSupplied}
        /\ ~last.compiled /\ ~simulate_function.exists

\* C20: a binding under MLE rewrites the kind of every parameter that is not
\* uniform, flat or fixed, to uniform when both bounds are given and to flat
\* otherwise; uniform, flat and fixed parameters keep their kind, and a
\* binding under any other method, like a fit that binds nothing, rewrites
\* no kind.
C20_Rewrite ==
    [][\A i \in 1..Len(learning_parameters) :
          LET old == learning_parameters[i]
              new == learning_parameters'[i]
          IN  new.distribution =
                IF last'.op = "fit" /\ last'.rebuilt /\ last'.method = "mle"
                        /\ old.distribution \notin {"uniform", "flat", "fixed"}
                THEN (IF old.lower_bound /\ old.upper_bound THEN "uniform" ELSE "flat")
                ELSE old.distribution]_vars

\* an MLE fit has bound a normal parameter declared with a lower bound only,
\* whose kind is now flat
C20_Witness ==
    /\ last.op = "fit" /\ last.rebuilt /\ last.method = "mle"
    /\ \E i \in 1..Len(declared) :
          /\ declared[i].distribution = "normal"
          /\ declared[i].lower_bound /\ ~declared[i].upper_bound
          /\ learning_parameters[i].distribution = "flat"

\* C29 as stated: on more than one row recovery returns None, after the
\* warning of identical values, only when every simulated parameter has the
\* same value in all rows, and returns correlations whenever some simulated
\* parameter takes two different values.
C29_Original ==
    request.pending = FALSE /\ last.op = "recovery"
            /\ last.result \in {"returns None", "returns correlations"} =>
        (Len(Compared[1]) > 1 =>
            (last.result = "returns None" <=> OneCombination))

\* the markers given to the constructor, by name
MarkerNames ==
    [k \in 1..Len(MarkersOf(request.args)) |-> MarkersOf(request.args)[k].parameter.name]

\* C24: once the constructor has run, either some marker matches no
\* learning-parameter name and the construction failed with the ValueError,
\* or the index list is 0 followed, marker by marker, by the position of the
\* learning parameter of that name, and the free observation parameters are
\* the items that are not markers; fits that follow leave the list as it is.
C24_Resolved ==
    ~request.pending /\ request.op = "init" =>
        IF \E k \in 1..Len(MarkerNames) :
              \A i \in 1..Len(request.parameters) :
                  request.parameters[i].name # MarkerNames[k]
        THEN /\ learning_model = None
             /\ last.op = "init" /\ last.result = "ValueError: observation inputs"
        ELSE /\ learning_model # None
             /\ Len(observation.inputs) = 1 + Len(MarkerNames)
             /\ observation.inputs[1] = 0
             /\ \A k \in 1..Len(MarkerNames) :
                   request.parameters[observation.inputs[k + 1] + 1].name = MarkerNames[k]
             /\ Len(observation.parameters) = Len(request.args) - Len(MarkerNames)
             /\ \A k \in 1..Len(observation.parameters) :
                   \E j \in 1..Len(request.args) :
                       /\ ~request.args[j].marker
                       /\ request.args[j].parameter.name = observation.parameters[k]

\* a model built with a marker for its second learning parameter has been
\* compiled by a fit
C24_Witness ==
    /\ ~request.pending /\ request.op = "init"
    /\ last.op = "fit" /\ last.rebuilt /\ last.result = "ok"
    /\ Len(observation.inputs) > 1 /\ observation.inputs[2] = 1

\* C27 as stated: in every model the constructor made, each index of the
\* list after the leading 0 is a position in the list of dynamic outputs and
\* is the position of the output carried for the parameter the marker named.
C27_Original ==
    ~request.pending /\ request.op = "init" /\ learning_model # None =>
        \A k \in 1..Len(MarkerNames) :
            /\ observation.inputs[k + 1] < n_dynamic(learning_parameters)
            /\ DynamicOutputs(learning_parameters)[observation.inputs[k + 1] + 1]
                  = MarkerNames[k]

\* the observation parameters given to the constructor that are not markers
DeclaredObservation ==
    [k \in 1..Len(ObjectsOf(request.args)) |-> ObjectsOf(request.args)[k].parameter]

\* C21: once a build has bound the parameters, an observation parameter named
\* as a learning parameter is that learning parameter itself, with the one
\* prior the learning parameter was given, and any other observation
\* parameter is an object of its own, bound with a prior of its declared
\* kind (as MLE rewrites it).
C21_Shared ==
    ~request.pending /\ request.op = "init" /\ last.op = "fit"
            /\ Len(observation.objects) > 0 =>
        \A n \in 1..Len(observation.objects) :
            LET o == observation.objects[n]
                d == DeclaredObservation[n]
                same == { i \in 1..Len(learning_parameters) :
                            learning_parameters[i].name = d.name }
            IN  IF same # {}
                THEN /\ o.shared \in same
                     /\ o.parameter = learning_parameters[o.shared]
                ELSE /\ o.shared = 0
                     /\ o.parameter.name = d.name
                     /\ o.parameter.pymc_distribution # NoDistribution
                     /\ o.parameter.pymc_distribution.family \in
                           {"BoundedNormal", "Uniform"}

\* a fit has built a model with an observation parameter shared with the
\* learning parameters and one of its own
C21_Witness ==
    /\ ~request.pending /\ request.op = "init"
    /\ last.op = "fit" /\ last.rebuilt /\ last.result = "ok"
    /\ \E n, m \in 1..Len(observation.objects) :
          /\ observation.objects[n].shared # 0
          /\ observation.objects[m].shared = 0
          /\ observation.objects[m].parameter.pymc_distribution # NoDistribution

\* C22 as stated: a build binds only the parameters not bound before; a
\* parameter bound by an earlier build keeps its bound handle and its
\* transform functions through a rebuild.
C22_Original ==
    [][last'.op = "fit" /\ last'.rebuilt =>
          \A i \in 1..Len(learning_parameters) :
              learning_parameters[i].pymc_distribution # NoDistribution =>
                  /\ learning_parameters'[i].pymc_distribution
                        = learning_parameters[i].pymc_distribution
                  /\ learning_parameters'[i].backward = learning_parameters[i].backward]_vars

\* C25: from the state an MLE build leaves, and from every state in which a
\* kind differs from the declared one, each parameter has in the next state
\* the kind MLE rewrites its declared kind to, and a fit that rebuilds the
\* model from there, by whatever method, gives every parameter the prior of
\* that kind.
C25_Permanent ==
    [][(pymc3_model.exists /\ pymc3_model.mle)
          \/ (\E i \in 1..Len(declared) :
                 learning_parameters[i].distribution # declared[i].distribution) =>
          \A i \in 1..Len(declared) :
              LET d == declared[i]
                  k == IF d.distribution \in {"uniform", "flat", "fixed"}
                       THEN d.distribution
                       ELSE IF d.lower_bound /\ d.upper_bound THEN "uniform" ELSE "flat"
              IN  /\ learning_parameters'[i].distribution = k
                  /\ last'.op = "fit" /\ last'.rebuilt =>
                        pymc3_model'.priors[i].family =
                            CASE k = "fixed" -> "constant"
                              [] k = "uniform" -> "Uniform"
                              [] k = "flat" -> "Flat"]_vars

\* after an MLE fit, a fit by MAP, variational inference or MCMC has rebuilt
\* the model of a parameter declared normal
C25_Witness ==
    /\ last.op = "fit" /\ last.rebuilt /\ last.result = "ok"
    /\ last.method \in {"map", "variational", "mcmc"}
    /\ \E i \in 1..Len(declared) :
          /\ declared[i].distribution = "normal"
          /\ learning_parameters[i].distribution \in {"uniform", "flat"}
          /\ pymc3_model.priors[i].family \in {"Uniform", "Flat"}

C30_Original ==
    [][/\ fit_complete' /\ ~fit_complete =>
              last'.op = "fit" /\ last'.estimated
                  /\ last'.result \notin {"Error: estimator", "Error: estimator, other"}
       /\ fit_complete => fit_complete'
       /\ fit_complete /\ last'.op = "fit" /\ last'.result # "ok" =>
              fit_values' = fit_values
       /\ fit_complete /\ last'.op = "simulate" /\ last'.from_fit =>
              last'.result # "ValueError: not fit"]_vars

\* C23 as stated: after a MAP or MLE fit whose estimator returned, the fit
\* values hold one entry for each free parameter and no other, under the
\* parameter's name; the entry is the raw value the estimator found for that
\* parameter, taken through the parameter's stored backward transform when
\* the variable was a transformed one and unchanged otherwise.
C23_Original ==
    last.op = "fit" /\ last.method \in {"map", "mle"} /\ last.estimated
            /\ last.result \notin {"Error: estimator", "Error: estimator, other"} =>
        LET est == Estimate(learning_parameters, pymc3_model, holders.value) IN
        /\ last.result = "ok"
        /\ fit_values.by = "find_MAP"
        /\ DOMAIN fit_values.values = FreeIndices(learning_parameters)
        /\ \A i \in FreeIndices(learning_parameters) :
              /\ fit_values.values[i].name = learning_parameters[i].name
              /\ fit_values.values[i].raw = est[i].raw
              /\ fit_values.values[i].backward =
                    IF est[i].transform # None THEN learning_parameters[i].backward
                    ELSE None

\* C28 as stated: in the result of a simulation the one-trial shift is applied
\* to every learning output alike, carried or record-only: from the second row
\* on, row t of each output is what the step of the trial before returned, so
\* that the outputs of one step stand in one row.
C28_Original ==
    rec.fn # None /\ rec.sim_done =>
        LET value == scan([f |-> rec.fn, wrapped |-> FALSE, n_reused |-> Len(rec.dynamic)],
                          rec.dynamic, rec.statics, rec.outcomes,
                          [t \in 1..Len(rec.outcomes) |-> t - 1])
        IN  \A n \in 1..n_returns(rec.fn) : \A t \in 2..Len(rec.outcomes) :
                rec.sim[n][t] = value[t - 1][n]

====
